---- MODULE Spec2Model ----
(***************************************************************************)
(* LINE -> Google Drive webhook relay (src/main.py, src/drive_client.py).  *)
(*                                                                         *)
(* One request handler (the coroutine `callback`, run by the event loop)   *)
(* and the deferred tasks it enqueues (`process_upload`, run by worker     *)
(* threads after the response has been sent) share the three lazily        *)
(* initialised client handles.  A handler has a single suspension point    *)
(* (await request.body()) at which it holds no model state, so one handler *)
(* is in flight at a time; worker threads interleave freely with it.       *)
(*                                                                         *)
(* Abstractions.  HMAC-SHA256 is a keyed function into DigestBits bits     *)
(* (collisions are possible and allowed); base64 text is a sequence of     *)
(* one-character strings; a raw body is the record of what its bytes       *)
(* decode to, and BodyBytes numbers the bytes it stands for.  A file name  *)
(* is the sequence of its pieces around ".", a link the sequence of the    *)
(* pieces it is formatted from.                                            *)
(*                                                                         *)
(* A task carries the locals of its activation of process_upload and the   *)
(* collaborator calls the activation has made; both are gone once the      *)
(* function has returned.                                                  *)
(*                                                                         *)
(* The specifications share every action and differ in the requests and    *)
(* collaborator results they draw: Spec (dispatch), SpecAuth (signature    *)
(* header), SpecNotify (sources and file resources), SpecFile (file names, *)
(* content types, links), SpecPipeline (batches, with fairness) and        *)
(* SpecRace (a second request while a task runs).                          *)
(***************************************************************************)
EXTENDS Integers, Sequences, FiniteSets, TLC

\* ------------------------------------------------------------------ bounds
MaxRequests == 1
MaxEvents == 2
MaxAuthEvents == 1
DigestBits == 1

\* ------------------------------------------------------------ vocabulary
None == "None"
NoDrive == 0
NoLink == <<>>

\* The X-Line-Signature header of a request: absent, or present with a value.
NoHeader == [present |-> FALSE, value |-> <<>>]
Headers(sigs) == {[present |-> TRUE, value |-> s] : s \in sigs} \cup {NoHeader}

\* Characters of a header value, by what the code does with them: characters of
\* the base64 alphabet; a character str.strip() removes and the HTTP server lets
\* through at either end of a value (U+001F, U+00A0); a character outside ASCII
\* (byte E9, which the framework decodes as latin-1).
Base64Chars == <<"A", "B">>
Whitespace == {" "}
NonAscii == {"E9"}
SigChars == {Base64Chars[k] : k \in 1..Len(Base64Chars)} \cup Whitespace \cup NonAscii

\* Every header value of up to one character more than a signature has, and
\* the values that are well-formed base64 of a digest.
MaxSigLen == DigestBits + 1
Signatures == UNION {[1..n -> SigChars] : n \in 0..MaxSigLen}
Base64Sigs == [1..DigestBits -> {Base64Chars[k] : k \in 1..Len(Base64Chars)}]

Secrets == {"", "s1", "s2"}
DispatchSecrets == {"", "s1"}
Tokens == {"", "tok"}
FolderIds == {"", "fld"}

MediaKinds == {"file", "image", "video", "audio"}
MessageKinds == MediaKinds \cup {"text", "sticker"}
EventKinds == MessageKinds \cup {"follow"}
KindList == <<"text", "image", "file", "video", "audio", "sticker", "follow">>

UserSource == [user_id |-> "U1", group_id |-> "", room_id |-> ""]
GroupSource == [user_id |-> "", group_id |-> "G1", room_id |-> ""]
RoomSource == [user_id |-> "", group_id |-> "", room_id |-> "R1"]
\* A message in a group chat names the group and the member who sent it.
GroupMemberSource == [user_id |-> "U1", group_id |-> "G1", room_id |-> ""]
\* "source": {"type": "user"} with no id: every attribute is None.
NoSource == [user_id |-> "", group_id |-> "", room_id |-> ""]

\* message.fileName of a file message, as the pieces "." separates; <<>> when
\* the message declares none.
NoFileName == <<>>
FileNames == {NoFileName, <<"report">>, <<"report", ".", "txt">>}

\* What one element of the JSON "events" array says.
EventPool == {[kind |-> k, source |-> UserSource, file_name |-> NoFileName] : k \in EventKinds}

\* Text and image messages from every kind of source, and from none.
SourcePool ==
    {[kind |-> k, source |-> s, file_name |-> NoFileName] :
        k \in {"text", "image"},
        s \in {UserSource, GroupSource, RoomSource, GroupMemberSource, NoSource}}

\* File messages with every declared file name.
FilePool == {[kind |-> "file", source |-> UserSource, file_name |-> f] : f \in FileNames}

\* One image and one text message.
SmallPool == {[kind |-> k, source |-> UserSource, file_name |-> NoFileName] :
                k \in {"image", "text"}}

Batches(pool, max) == UNION {[1..n -> pool] : n \in 0..max}

\* A raw request body: bytes that are not UTF-8, UTF-8 text that is not the
\* JSON envelope, or the envelope with its events.
Bodies(pool, max) ==
    {[wire |-> "json", batch |-> b] : b \in Batches(pool, max)}
      \cup {[wire |-> w, batch |-> <<>>] : w \in {"badjson", "badutf8"}}

\* The envelopes that carry exactly one event.
SingleEvent(pool) == {[wire |-> "json", batch |-> <<e>>] : e \in pool}

\* --------------------------------------------------------- pure functions
KindCode(k) == CHOOSE n \in 1..Len(KindList) : KindList[n] = k

RECURSIVE BatchCode(_)
BatchCode(b) ==
    IF b = <<>> THEN 0
    ELSE KindCode(b[Len(b)].kind) + 2 * BatchCode(SubSeq(b, 1, Len(b) - 1))

\* The bytes of a body, as a number.
BodyBytes(body) ==
    CASE body.wire = "badutf8" -> 1
      [] body.wire = "badjson" -> 2
      [] OTHER -> 3 + BatchCode(body.batch)

\* str.encode("utf-8") of a secret.
KeyBytes(secret) ==
    CASE secret = "" -> 0
      [] secret = "s1" -> 1
      [] OTHER -> 2

RECURSIVE Pow2(_)
Pow2(n) == IF n = 0 THEN 1 ELSE 2 * Pow2(n - 1)

hmac_sha256(key, msg) == (key + msg) % Pow2(DigestBits)

RECURSIVE EncodeBits(_, _)
EncodeBits(d, n) ==
    IF n = 0 THEN <<>>
    ELSE Append(EncodeBits(d \div 2, n - 1), Base64Chars[(d % 2) + 1])

b64encode(d) == EncodeBits(d, DigestBits)

\* Mutant: the digest is keyed with the empty key instead of the secret.
_compute_signature_unkeyed(secret, body) ==
    b64encode(hmac_sha256(KeyBytes(""), BodyBytes(body)))

_compute_signature(secret, body) ==
    b64encode(hmac_sha256(KeyBytes(secret), BodyBytes(body)))

RECURSIVE lstrip(_)
lstrip(s) == IF s # <<>> /\ Head(s) \in Whitespace THEN lstrip(Tail(s)) ELSE s

RECURSIVE rstrip(_)
rstrip(s) ==
    IF s # <<>> /\ s[Len(s)] \in Whitespace
    THEN rstrip(SubSeq(s, 1, Len(s) - 1))
    ELSE s

strip(s) == rstrip(lstrip(s))

isascii(s) == \A k \in 1..Len(s) : s[k] \notin NonAscii

\* hmac.compare_digest on two str: TypeError unless both are ASCII.
compare_digest(a, b) ==
    IF ~isascii(a) \/ ~isascii(b) THEN "TypeError"
    ELSE IF a = b THEN "equal" ELSE "differ"

\* str.encode("utf-8"): one byte per ASCII character, two for U+00E9.
RECURSIVE utf8(_)
utf8(s) ==
    IF s = <<>> THEN <<>>
    ELSE (IF Head(s) \in NonAscii THEN <<"C3", "A9">> ELSE <<Head(s)>>) \o utf8(Tail(s))

\* linebot SignatureValidator.validate: bytes against bytes, never raises.
validate(secret, text_bytes, signature) ==
    utf8(signature) = utf8(b64encode(hmac_sha256(KeyBytes(secret), text_bytes)))

MkEvent(tpl, k) ==
    [kind |-> tpl.kind, reply_token |-> k, id |-> k,
     source |-> tpl.source, file_name |-> tpl.file_name]

\* body_bytes.decode("utf-8") followed by WebhookParser.parse, which checks
\* the signature it is given before it reads the JSON.
parse(secret, body, signature) ==
    IF body.wire = "badutf8"
    THEN [exc |-> "UnicodeDecodeError", parsed |-> "failed", events |-> <<>>]
    ELSE IF ~validate(secret, BodyBytes(body), signature)
    THEN [exc |-> "InvalidSignatureError", parsed |-> "no", events |-> <<>>]
    ELSE IF body.wire = "badjson"
    THEN [exc |-> "JSONDecodeError", parsed |-> "failed", events |-> <<>>]
    ELSE [exc |-> None, parsed |-> "ok",
          events |-> [k \in 1..Len(body.batch) |-> MkEvent(body.batch[k], k)]]

LogParseFailure == [op |-> "log_parse_failed", idx |-> 0, tok |-> 0, ok |-> TRUE]

\* Mutant: only InvalidSignatureError is caught; anything else leaves the handler.
parse_failed_uncaught(exc) ==
    IF exc = "InvalidSignatureError"
    THEN [status |-> 400, error |-> "HTTPException", log |-> <<>>]
    ELSE [status |-> 500, error |-> exc, log |-> <<>>]

\* The except clauses around parser.parse: what the handler answers and logs.
parse_failed(exc) ==
    IF exc = "InvalidSignatureError"
    THEN [status |-> 400, error |-> "HTTPException", log |-> <<>>]
    ELSE [status |-> 200, error |-> None, log |-> <<LogParseFailure>>]

IsMessageEvent(ev) == ev.kind \in MessageKinds
IsMediaMessage(ev) == ev.kind \in MediaKinds
IsTextMessage(ev) == ev.kind = "text"

Reply(k, ev, ok) == [op |-> "reply", idx |-> k, tok |-> ev.reply_token, ok |-> ok]
Enqueue(k) == [op |-> "add_task", idx |-> k, tok |-> 0, ok |-> TRUE]

\* Mutant: the message's type is not looked at, every message is uploaded.
route_every_message_uploaded(k, ev, ok) ==
    IF IsMessageEvent(ev)
    THEN [calls |-> <<Reply(k, ev, ok), Enqueue(k)>>, raised |-> None]
    ELSE [calls |-> <<>>, raised |-> None]

\* Mutant: add_task sits inside the try, after the reply.
route_enqueue_in_try(k, ev, ok) ==
    IF IsMessageEvent(ev) /\ IsMediaMessage(ev)
    THEN [calls |-> IF ok THEN <<Reply(k, ev, ok), Enqueue(k)>> ELSE <<Reply(k, ev, ok)>>,
          raised |-> None]
    ELSE IF IsMessageEvent(ev) /\ IsTextMessage(ev)
    THEN [calls |-> <<Reply(k, ev, ok)>>, raised |-> None]
    ELSE [calls |-> <<>>, raised |-> None]

\* Mutant: the reply is not wrapped in try/except.
route_reply_uncaught(k, ev, ok) ==
    IF IsMessageEvent(ev) /\ (IsMediaMessage(ev) \/ IsTextMessage(ev)) /\ ~ok
    THEN [calls |-> <<Reply(k, ev, ok)>>, raised |-> "LineBotApiError"]
    ELSE IF IsMessageEvent(ev) /\ IsMediaMessage(ev)
    THEN [calls |-> <<Reply(k, ev, ok), Enqueue(k)>>, raised |-> None]
    ELSE IF IsMessageEvent(ev) /\ IsTextMessage(ev)
    THEN [calls |-> <<Reply(k, ev, ok)>>, raised |-> None]
    ELSE [calls |-> <<>>, raised |-> None]

\* Mutant: event.message is read without the isinstance(event, MessageEvent)
\* test, and an event that has no message raises.
route_no_message_test(k, ev, ok) ==
    IF ~IsMessageEvent(ev) THEN [calls |-> <<>>, raised |-> "AttributeError"]
    ELSE IF IsMediaMessage(ev)
    THEN [calls |-> <<Reply(k, ev, ok), Enqueue(k)>>, raised |-> None]
    ELSE IF IsTextMessage(ev)
    THEN [calls |-> <<Reply(k, ev, ok)>>, raised |-> None]
    ELSE [calls |-> <<>>, raised |-> None]

\* One iteration of the handler's loop: the calls it makes, in order, and the
\* exception that leaves it (none: LineBotApiError is caught where it is raised).
route(k, ev, ok) ==
    IF IsMessageEvent(ev) /\ IsMediaMessage(ev)
    THEN [calls |-> <<Reply(k, ev, ok), Enqueue(k)>>, raised |-> None]
    ELSE IF IsMessageEvent(ev) /\ IsTextMessage(ev)
    THEN [calls |-> <<Reply(k, ev, ok)>>, raised |-> None]
    ELSE [calls |-> <<>>, raised |-> None]

\* What process_upload reads of the event it is bound to.
TaskEvent(ev) == [id |-> ev.id, source |-> ev.source, file_name |-> ev.file_name]

NoMeta == [id |-> "", webViewLink |-> "", webContentLink |-> ""]

\* A task and the locals of process_upload; calls lists the collaborator
\* calls the activation has made so far.
NewTask(r, ev) ==
    [req |-> r, ev |-> TaskEvent(ev), pc |-> "pending",
     content_type |-> "", filename |-> <<>>, meta |-> NoMeta, link |-> NoLink,
     calls |-> <<>>]

\* Mutant: process_upload(event) is called in the handler instead of enqueued.
add_task_run_inline(ts, t) == Append(ts, [t EXCEPT !.pc = "returned"])

\* BackgroundTasks.add_task: the task waits until the response has been sent.
add_task(ts, t) == Append(ts, t)

\* Mutant: with no id in the source the link goes to a default recipient.
_push_target_or_default(src) ==
    IF src.user_id # "" THEN src.user_id
    ELSE IF src.group_id # "" THEN src.group_id
    ELSE IF src.room_id # "" THEN src.room_id
    ELSE "U0"

_push_target(src) ==
    IF src.user_id # "" THEN src.user_id
    ELSE IF src.group_id # "" THEN src.group_id
    ELSE IF src.room_id # "" THEN src.room_id
    ELSE None

\* Mutant: the content link is preferred to the view link.
ChooseLink_content_first(meta) ==
    IF meta.webContentLink # "" THEN <<meta.webContentLink>>
    ELSE IF meta.webViewLink # "" THEN <<meta.webViewLink>>
    ELSE IF meta.id # "" THEN <<"https://drive.google.com/file/d/", meta.id, "/view">>
    ELSE NoLink

ChooseLink(meta) ==
    IF meta.webViewLink # "" THEN <<meta.webViewLink>>
    ELSE IF meta.webContentLink # "" THEN <<meta.webContentLink>>
    ELSE IF meta.id # "" THEN <<"https://drive.google.com/file/d/", meta.id, "/view">>
    ELSE NoLink

Metas == {[id |-> "abc", webViewLink |-> "view", webContentLink |-> ""],
          [id |-> "", webViewLink |-> "", webContentLink |-> ""]}

\* Every file resource the storage service may return: each of id,
\* webViewLink and webContentLink present or not.
AllMetas == [id : {"", "abc"}, webViewLink : {"", "view"}, webContentLink : {"", "content"}]

\* The Content-Type of the fetched content; "" when the response has none.
ContentTypes == {"", "application/pdf", "image/jpeg", "audio/x-m4a"}
JpegOnly == {"image/jpeg"}

\* mimetypes.guess_extension: the first extension the interpreter's table
\* lists for the type (for image/jpeg ".jpe" or ".jpg", by Python version),
\* None (here <<>>) for a type the table does not know.
guess_extension(content_type) ==
    CASE content_type = "application/pdf" -> {<<".", "pdf">>}
      [] content_type = "image/jpeg" -> {<<".", "jpe">>, <<".", "jpg">>}
      [] content_type = "application/octet-stream" -> {<<".", "bin">>}
      [] OTHER -> {<<>>}

\* Mutant: the guessed extension is used as it is.
_safe_ext_as_guessed(ext) == ext

\* _safe_ext, given what guess_extension returned for the content type.
_safe_ext(ext) == IF ext = <<".", "jpe">> THEN <<".", "jpg">> ELSE ext

\* "." in base
HasDot(base) == \E k \in 1..Len(base) : base[k] = "."

\* Lines 108-109: the declared name or line_<message id>, with the extension
\* appended when the name has no ".".
derive_filename(ev, ext) ==
    LET base == IF ev.file_name # NoFileName THEN ev.file_name
                ELSE <<"line_", ToString(ev.id)>>
    IN  IF HasDot(base) THEN base ELSE base \o _safe_ext(ext)

Call(op, to, text, ok) == [op |-> op, to |-> to, text |-> text, ok |-> ok]

\* Mutant: process_upload has no except clause; the exception leaves it.
on_exception_uncaught(task, call) ==
    [task EXCEPT !.pc = "raised", !.calls = Append(@, call)]

\* except Exception of process_upload: the exception raised by call is
\* logged and the function returns.
on_exception(task, call) ==
    [task EXCEPT !.pc = "exit", !.calls = Append(@, call)]

\* ------------------------------------------------------------------ state
VARIABLES
    CHANNEL_SECRET, CHANNEL_ACCESS_TOKEN, GOOGLE_DRIVE_FOLDER_ID,
    line_bot_api, parser, drive, drive_built,
    hpc, nreq, req, parsed, events, i, hlog, resp,
    tasks

env == <<CHANNEL_SECRET, CHANNEL_ACCESS_TOKEN, GOOGLE_DRIVE_FOLDER_ID>>
handles == <<line_bot_api, parser, drive, drive_built>>
handler == <<hpc, nreq, req, parsed, events, i, hlog, resp>>
vars == <<env, handles, handler, tasks>>

NoReq == [header |-> NoHeader, body |-> [wire |-> "none", batch |-> <<>>]]
NoResp == [status |-> 0, error |-> None]

\* The process after import: the environment read, no client built yet.
Start(secrets) ==
    /\ CHANNEL_SECRET \in secrets
    /\ CHANNEL_ACCESS_TOKEN \in Tokens
    /\ GOOGLE_DRIVE_FOLDER_ID \in FolderIds
    /\ line_bot_api = None
    /\ parser = None
    /\ drive = NoDrive
    /\ drive_built = 0
    /\ hpc = "idle"
    /\ nreq = 0
    /\ req = NoReq
    /\ parsed = "no"
    /\ events = <<>>
    /\ i = 0
    /\ hlog = <<>>
    /\ resp = NoResp
    /\ tasks = <<>>

Init == Start(DispatchSecrets)

InitAuth == Start(Secrets)

\* Mutant: the destination folder id is not among the values tested.
ConfigComplete_without_folder ==
    CHANNEL_SECRET # "" /\ CHANNEL_ACCESS_TOKEN # ""

ConfigComplete ==
    CHANNEL_SECRET # "" /\ CHANNEL_ACCESS_TOKEN # "" /\ GOOGLE_DRIVE_FOLDER_ID # ""

\* _ensure_clients run without interruption; built says whether get_drive()
\* returns a client or raises.
_ensure_clients(built) ==
    [line_bot_api |->
        IF line_bot_api = None /\ CHANNEL_ACCESS_TOKEN # "" THEN "LineBotApi"
        ELSE line_bot_api,
     parser |->
        IF parser = None /\ CHANNEL_SECRET # "" THEN "WebhookParser" ELSE parser,
     drive |-> IF drive = NoDrive /\ built THEN drive_built + 1 ELSE drive,
     drive_built |-> IF drive = NoDrive /\ built THEN drive_built + 1 ELSE drive_built]

\* The handler from its entry to the start of the loop over the events.
\* status 0: no response yet, the loop runs next.
callback_head(header, body, built) ==
    LET cl == _ensure_clients(built)
        keep == [line_bot_api |-> line_bot_api, parser |-> parser,
                 drive |-> drive, drive_built |-> drive_built]
        Stop(c, st, err, pd, lg) ==
            [cl |-> c, status |-> st, error |-> err, parsed |-> pd,
             events |-> <<>>, log |-> lg]
        sig == header.value
    IN  IF ~header.present THEN Stop(keep, 422, "RequestValidationError", "no", <<>>)
        ELSE IF ~ConfigComplete THEN Stop(keep, 500, "HTTPException", "no", <<>>)
        ELSE IF cl.parser = None \/ cl.line_bot_api = None
        THEN Stop(cl, 500, "HTTPException", "no", <<>>)
        ELSE LET cmp == compare_digest(strip(sig), _compute_signature(CHANNEL_SECRET, body))
             IN  IF cmp = "TypeError" THEN Stop(cl, 500, "TypeError", "no", <<>>)
                 ELSE IF cmp = "differ" THEN Stop(cl, 400, "HTTPException", "no", <<>>)
                 ELSE LET p == parse(CHANNEL_SECRET, body, sig)
                          f == parse_failed(p.exc)
                      IN  IF p.exc # None
                          THEN Stop(cl, f.status, f.error, p.parsed, f.log)
                          ELSE [cl |-> cl, status |-> 0, error |-> None,
                                parsed |-> p.parsed, events |-> p.events, log |-> <<>>]

callback_enter(sigs, bodies, limit) ==
    /\ hpc = "idle"
    /\ nreq < limit
    /\ \E header \in Headers(sigs), body \in bodies, built \in BOOLEAN :
        LET h == callback_head(header, body, built)
        IN  /\ req' = [header |-> header, body |-> body]
            /\ line_bot_api' = h.cl.line_bot_api
            /\ parser' = h.cl.parser
            /\ drive' = h.cl.drive
            /\ drive_built' = h.cl.drive_built
            /\ parsed' = h.parsed
            /\ events' = h.events
            /\ hlog' = h.log
            /\ resp' = [status |-> h.status, error |-> h.error]
            /\ hpc' = IF h.status = 0 THEN "loop" ELSE "returned"
            /\ i' = 1
    /\ nreq' = nreq + 1
    /\ UNCHANGED <<env, tasks>>

\* One iteration of `for event in events`; ok says whether reply_message
\* returns or raises LineBotApiError.  An exception that leaves the iteration
\* leaves the handler, and the framework answers 500.
callback_route ==
    /\ hpc = "loop"
    /\ i <= Len(events)
    /\ \E ok \in BOOLEAN :
        LET r == route(i, events[i], ok)
        IN  /\ hlog' = hlog \o r.calls
            /\ tasks' = IF \E c \in 1..Len(r.calls) : r.calls[c].op = "add_task"
                        THEN add_task(tasks, NewTask(nreq, events[i]))
                        ELSE tasks
            /\ IF r.raised = None
               THEN i' = i + 1 /\ UNCHANGED <<hpc, resp>>
               ELSE /\ i' = i
                    /\ hpc' = "returned"
                    /\ resp' = [status |-> 500, error |-> r.raised]
    /\ UNCHANGED <<env, handles, nreq, req, parsed, events>>

callback_return ==
    /\ hpc = "loop"
    /\ i > Len(events)
    /\ resp' = [status |-> 200, error |-> None]
    /\ hpc' = "returned"
    /\ UNCHANGED <<env, handles, nreq, req, parsed, events, i, hlog, tasks>>

\* Mutant: the response is sent without the request's background tasks.
send_response_without_tasks ==
    /\ hpc = "returned"
    /\ hpc' = "idle"
    /\ req' = NoReq
    /\ resp' = NoResp
    /\ parsed' = "no"
    /\ events' = <<>>
    /\ hlog' = <<>>
    /\ i' = 0
    /\ UNCHANGED <<env, handles, nreq, tasks>>

\* The framework sends the response and only then runs the request's
\* background tasks; the request and its locals are gone.
send_response ==
    /\ hpc = "returned"
    /\ hpc' = "idle"
    /\ req' = NoReq
    /\ resp' = NoResp
    /\ parsed' = "no"
    /\ events' = <<>>
    /\ hlog' = <<>>
    /\ i' = 0
    /\ tasks' = [t \in 1..Len(tasks) |->
                    IF tasks[t].req = nreq /\ tasks[t].pc = "pending"
                    THEN [tasks[t] EXCEPT !.pc = "queued"]
                    ELSE tasks[t]]
    /\ UNCHANGED <<env, handles, nreq>>

\* ---------------------------------------------------------- deferred task
Terminal(t) == tasks[t].pc = "returned"

\* BackgroundTasks runs the tasks of one request one after the other, and
\* stops at a task that raises.
Runnable(t) ==
    /\ tasks[t].pc = "queued"
    /\ \A u \in 1..(t - 1) : tasks[u].req = tasks[t].req => Terminal(u)

SetPc(t, pc) == [tasks EXCEPT ![t].pc = pc]

\* process_upload enters _ensure_clients and reads `drive`; with the drive
\* client there, the readiness check of line 98 follows at once.
task_begin(t) ==
    /\ Runnable(t)
    /\ line_bot_api' =
        IF line_bot_api = None /\ CHANNEL_ACCESS_TOKEN # "" THEN "LineBotApi"
        ELSE line_bot_api
    /\ parser' = IF parser = None /\ CHANNEL_SECRET # "" THEN "WebhookParser" ELSE parser
    /\ tasks' = SetPc(t, IF drive = NoDrive THEN "get_drive"
                         ELSE IF line_bot_api' = None THEN "exit" ELSE "fetch")
    /\ UNCHANGED <<env, drive, drive_built, handler>>

\* Mutant: process_upload goes on without the readiness check of line 98.
task_get_drive_unchecked(t) ==
    /\ tasks[t].pc = "get_drive"
    /\ \E built \in BOOLEAN :
        /\ drive' = IF built THEN drive_built + 1 ELSE drive
        /\ drive_built' = IF built THEN drive_built + 1 ELSE drive_built
        /\ tasks' = SetPc(t, "fetch")
    /\ UNCHANGED <<env, line_bot_api, parser, handler>>

\* get_drive() returns or raises; then the readiness check of line 98.
task_get_drive(t) ==
    /\ tasks[t].pc = "get_drive"
    /\ \E built \in BOOLEAN :
        /\ drive' = IF built THEN drive_built + 1 ELSE drive
        /\ drive_built' = IF built THEN drive_built + 1 ELSE drive_built
        /\ tasks' = SetPc(t, IF line_bot_api = None \/ drive' = NoDrive
                             THEN "exit" ELSE "fetch")
    /\ UNCHANGED <<env, line_bot_api, parser, handler>>

\* get_message_content and the buffering of the content, then the file name.
task_fetch(t, types) ==
    /\ tasks[t].pc = "fetch"
    /\ \E ok \in BOOLEAN :
        IF ok
        THEN \E declared \in types :
                LET ct == IF declared = "" THEN "application/octet-stream" ELSE declared
                IN  \E ext \in guess_extension(ct) :
                        tasks' = [tasks EXCEPT
                            ![t].pc = "upload",
                            ![t].content_type = ct,
                            ![t].filename = derive_filename(tasks[t].ev, ext),
                            ![t].calls = Append(@, Call("fetch", "", <<>>, TRUE))]
        ELSE tasks' = [tasks EXCEPT
                            ![t] = on_exception(@, Call("fetch", "", <<>>, FALSE))]
    /\ UNCHANGED <<env, handles, handler>>

\* upload_stream and the choice of the link; content_type and filename are
\* not read again.
task_upload(t, metas) ==
    /\ tasks[t].pc = "upload"
    /\ \E ok \in BOOLEAN :
        IF ok
        THEN \E meta \in metas :
                tasks' = [tasks EXCEPT
                    ![t].pc = "push",
                    ![t].content_type = "",
                    ![t].filename = <<>>,
                    ![t].meta = meta,
                    ![t].link = ChooseLink(meta),
                    ![t].calls = Append(@, Call("upload", "", <<>>, TRUE))]
        ELSE tasks' = [tasks EXCEPT
                    ![t] = [on_exception(@, Call("upload", "", <<>>, FALSE))
                                EXCEPT !.content_type = "", !.filename = <<>>]]
    /\ UNCHANGED <<env, handles, handler>>

\* push_message to the target with the link, LineBotApiError caught and
\* logged; or the warning that target or link is missing.
task_push(t) ==
    /\ tasks[t].pc = "push"
    /\ LET to == _push_target(tasks[t].ev.source)
       IN  IF to # None /\ tasks[t].link # NoLink
           THEN \E ok \in BOOLEAN :
                    tasks' = [tasks EXCEPT
                        ![t].pc = "exit",
                        ![t].calls = Append(@, Call("push", to, tasks[t].link, ok))]
           ELSE tasks' = SetPc(t, "exit")
    /\ UNCHANGED <<env, handles, handler>>

\* process_upload returns: its locals are gone.
task_return(t) ==
    /\ tasks[t].pc = "exit"
    /\ tasks' = [tasks EXCEPT
            ![t] = [NewTask(@.req, [id |-> @.ev.id, source |-> @.ev.source,
                                    file_name |-> @.ev.file_name])
                        EXCEPT !.pc = "returned"]]
    /\ UNCHANGED <<env, handles, handler>>

\* One step of the activation of process_upload for task t.
task_step(t, types, metas) ==
    \/ task_begin(t)
    \/ task_get_drive(t)
    \/ task_fetch(t, types)
    \/ task_upload(t, metas)
    \/ task_push(t)
    \/ task_return(t)

process_upload(types, metas) ==
    \E t \in 1..Len(tasks) :
        \/ task_begin(t)
        \/ task_get_drive(t)
        \/ task_fetch(t, types)
        \/ task_upload(t, metas)
        \/ task_push(t)
        \/ task_return(t)

callback(sigs, bodies, limit) ==
    \/ callback_enter(sigs, bodies, limit)
    \/ callback_route
    \/ callback_return
    \/ send_response

\* Dispatch: batches of up to MaxEvents events of every kind, under every
\* well-formed signature value (the right one and the wrong ones) or none.
Next ==
    \/ callback(Base64Sigs, Bodies(EventPool, MaxEvents), MaxRequests)
    \/ process_upload(JpegOnly, Metas)

Spec == Init /\ [][Next]_vars

\* Authentication: every header value over SigChars and every signing
\* secret, on batches of up to MaxAuthEvents events.
NextAuth ==
    \/ callback(Signatures, Bodies(EventPool, MaxAuthEvents), MaxRequests)
    \/ process_upload(JpegOnly, Metas)

SpecAuth == InitAuth /\ [][NextAuth]_vars

InitTask == Start({"s1"})

\* Notification: one text or image message from every kind of source, and
\* every file resource the upload may return.
NextNotify ==
    \/ callback(Base64Sigs, SingleEvent(SourcePool), MaxRequests)
    \/ process_upload(JpegOnly, AllMetas)

SpecNotify == InitTask /\ [][NextNotify]_vars

\* File names and links: one file message with every declared name, every
\* content type and every file resource.
NextFile ==
    \/ callback(Base64Sigs, SingleEvent(FilePool), MaxRequests)
    \/ process_upload(ContentTypes, AllMetas)

SpecFile == InitTask /\ [][NextFile]_vars

\* The pipeline: batches of image and text messages; the event loop runs a
\* handler to its response and every worker thread runs its task on, each
\* collaborator call returning or failing.
MaxTasks == MaxRequests * MaxEvents

NextPipeline ==
    \/ callback(Base64Sigs, Bodies(SmallPool, MaxEvents), MaxRequests)
    \/ process_upload(JpegOnly, Metas)

SpecPipeline ==
    /\ InitTask
    /\ [][NextPipeline]_vars
    /\ WF_vars(callback_route)
    /\ WF_vars(callback_return)
    /\ WF_vars(send_response)
    /\ \A t \in 1..MaxTasks : WF_vars(t <= Len(tasks) /\ task_step(t, JpegOnly, Metas))

\* First use: a second request arrives while the task of the first runs.
MaxRaceRequests == MaxRequests + 1

NextRace ==
    \/ callback(Base64Sigs, SingleEvent(SmallPool), MaxRaceRequests)
    \/ process_upload(JpegOnly, Metas)

SpecRace == InitTask /\ [][NextRace]_vars
\* ------------------------------------------------------------------ claims
\* base64(HMAC-SHA256(secret, raw body)), the signature the platform sends.
GenuineSignature(secret, body) ==
    b64encode(hmac_sha256(KeyBytes(secret), BodyBytes(body)))

RequiredConfigPresent ==
    CHANNEL_SECRET # "" /\ CHANNEL_ACCESS_TOKEN # "" /\ GOOGLE_DRIVE_FOLDER_ID # ""

MediaEvent(ev) == ev.kind \in {"file", "image", "video", "audio"}
TextEvent(ev) == ev.kind = "text"
OtherEvent(ev) == ~MediaEvent(ev) /\ ~TextEvent(ev)

\* The request in the handler carries a signature header.
Signed == hpc # "idle" /\ req.header.present
Genuine == Signed /\ req.header.value = GenuineSignature(CHANNEL_SECRET, req.body)
Forged == Signed /\ req.header.value # GenuineSignature(CHANNEL_SECRET, req.body)

\* A verified batch that was parsed into events is being, or has been, routed.
Dispatching == hpc # "idle" /\ parsed = "ok"
Routed == {k \in 1..Len(events) : k < i}

CallsOf(k) == SelectSeq(hlog, LAMBDA c : c.idx = k)
CallsNamed(op) == SelectSeq(hlog, LAMBDA c : c.op = op)
OwnTasks == {t \in 1..Len(tasks) : tasks[t].req = nreq}
TasksFor(k) == {t \in OwnTasks : tasks[t].ev.id = events[k].id}

NothingProcessed ==
    /\ parsed = "no"
    /\ events = <<>>
    /\ hlog = <<>>
    /\ OwnTasks = {}

\* The calls section 4.2 prescribes for one event, reply outcomes left open.
Prescribed(k, ev) ==
    IF MediaEvent(ev) THEN <<[op |-> "reply", idx |-> k, tok |-> ev.reply_token],
                             [op |-> "add_task", idx |-> k, tok |-> 0]>>
    ELSE IF TextEvent(ev) THEN <<[op |-> "reply", idx |-> k, tok |-> ev.reply_token]>>
    ELSE <<>>

RECURSIVE PrescribedUpTo(_)
PrescribedUpTo(n) ==
    IF n = 0 THEN <<>> ELSE PrescribedUpTo(n - 1) \o Prescribed(n, events[n])

\* The handler's calls so far, without their outcomes.
CallsMade == [c \in 1..Len(hlog) |->
                [op |-> hlog[c].op, idx |-> hlog[c].idx, tok |-> hlog[c].tok]]

\* C1: with the configuration complete, a request whose claimed signature is
\* not base64(HMAC-SHA256(secret, raw body)) is answered 400 and nothing of it
\* is processed: the body is not parsed, no reply is sent, no task enqueued.
C1_ForgedSignatureRejected ==
    (hpc = "returned" /\ RequiredConfigPresent /\ Forged)
        => (resp.status = 400 /\ NothingProcessed)

C3_TextRepliedOnce ==
    Dispatching =>
        \A k \in Routed : TextEvent(events[k]) =>
            /\ Len(CallsOf(k)) = 1
            /\ CallsOf(k)[1].op = "reply"
            /\ CallsOf(k)[1].tok = events[k].reply_token
            /\ TasksFor(k) = {}

C3_Witness ==
    /\ Dispatching
    /\ hpc = "returned"
    /\ \E k \in Routed : TextEvent(events[k]) /\ Len(CallsOf(k)) = 1

C6_OtherEventsIgnored ==
    (Dispatching /\ \E k \in Routed : OtherEvent(events[k])) =>
        /\ \A k \in Routed : OtherEvent(events[k]) =>
            (CallsOf(k) = <<>> /\ TasksFor(k) = {})
        /\ CallsMade = PrescribedUpTo(i - 1)
        /\ resp.error = None
        /\ hpc = "returned" => (resp.status = 200 /\ Routed = 1..Len(events))

C6_Witness ==
    /\ Dispatching
    /\ hpc = "returned"
    /\ resp.status = 200
    /\ \E j, k \in Routed :
        /\ events[j].kind = "follow"
        /\ events[k].kind \in {"sticker", "image"}
        /\ j < k
    /\ hlog # <<>>

\* C7: a body that carries its genuine signature and is not the JSON envelope
\* is answered 200 with no reply sent and no task enqueued, and exactly one
\* parse failure is logged; no exception leaves the handler.
C7_ParseFailureSwallowed ==
    (hpc = "returned" /\ RequiredConfigPresent /\ Genuine /\ req.body.wire # "json") =>
        /\ resp = [status |-> 200, error |-> None]
        /\ CallsNamed("reply") = <<>>
        /\ CallsNamed("add_task") = <<>>
        /\ Len(CallsNamed("log_parse_failed")) = 1
        /\ events = <<>>
        /\ OwnTasks = {}

C7_Witness ==
    /\ hpc = "returned"
    /\ RequiredConfigPresent
    /\ Genuine
    /\ req.body.wire = "badjson"
    /\ resp.status = 200
    /\ Len(hlog) = 1

\* C8 as written: with a required configuration value absent, every request
\* is answered 500.
C8_EveryRequestAnswered500 ==
    (hpc = "returned" /\ ~RequiredConfigPresent) => resp.status = 500

\* C8 as amended: with a required configuration value absent, every request
\* that carries the signature header is answered 500 and nothing is
\* processed, no client is built, and under an empty secret no request is
\* accepted at all.
C8_MissingConfigRejected ==
    /\ (Signed /\ ~RequiredConfigPresent) =>
        /\ hpc = "returned"
        /\ resp = [status |-> 500, error |-> "HTTPException"]
        /\ NothingProcessed
    /\ ~RequiredConfigPresent =>
        /\ line_bot_api = None /\ parser = None /\ drive = NoDrive
        /\ tasks = <<>>
    /\ CHANNEL_SECRET = "" => (resp.status # 200 /\ hpc # "loop" /\ parsed = "no")

C8_Witness ==
    /\ hpc = "returned"
    /\ ~RequiredConfigPresent
    /\ CHANNEL_SECRET # ""
    /\ Genuine
    /\ req.body.wire = "json"
    /\ req.body.batch # <<>>
    /\ resp.status = 500

\* C9: a request that carries base64(HMAC-SHA256(secret, raw body)) is never
\* answered 400, and with the configuration complete it passes verification.
C9_GenuineSignatureAccepted ==
    Genuine =>
        /\ resp.status # 400
        /\ RequiredConfigPresent =>
            (resp.status \in {0, 200} /\ resp.error = None /\ parsed # "no")

C9_Witness ==
    /\ Genuine
    /\ RequiredConfigPresent
    /\ hpc = "returned"
    /\ resp.status = 200
    /\ parsed = "ok"
    /\ events # <<>>

\* C10: a claimed signature that is malformed (here: holds a non-ASCII
\* character) is answered 400 like any other mismatch, and no exception
\* leaves the handler.
C10_MalformedSignatureIs400 ==
    (hpc = "returned" /\ RequiredConfigPresent /\ Signed /\ ~isascii(req.header.value))
        => resp = [status |-> 400, error |-> "HTTPException"]

\* None of the source identity fields of the event is populated.
Unsourced(src) == src.user_id = "" /\ src.group_id = "" /\ src.room_id = ""

\* The collaborator calls of task t named op.
TaskCalls(t, op) == SelectSeq(tasks[t].calls, LAMBDA c : c.op = op)

\* C11: an event with no source identity populated is not routed: the handler
\* sends no reply and enqueues no task for it, and no task ever pushes a
\* message for such an event.
C11_UnsourcedEventSkipped ==
    /\ Dispatching =>
        \A k \in Routed : Unsourced(events[k].source) =>
            (CallsOf(k) = <<>> /\ TasksFor(k) = {})
    /\ \A t \in 1..Len(tasks) :
        Unsourced(tasks[t].ev.source) => TaskCalls(t, "push") = <<>>

\* Where an activation of process_upload can be: waiting, at one of its
\* steps, about to return, or returned.
TaskPcs == {"pending", "queued", "get_drive", "fetch", "upload", "push", "exit", "returned"}

SameRequestBefore(t) == {u \in 1..(t - 1) : tasks[u].req = tasks[t].req}

FailedCalls(t) == SelectSeq(tasks[t].calls, LAMBDA c : ~c.ok)

\* C12: no exception leaves a task; a task whose fetch, upload or push failed
\* makes no call after the failed one and is about to return; and a task
\* whose predecessors in its request have all returned, failed or not, can
\* start.
C12_TaskFailureContained ==
    \A t \in 1..Len(tasks) :
        /\ tasks[t].pc \in TaskPcs
        /\ FailedCalls(t) # <<>> =>
            /\ tasks[t].pc = "exit"
            /\ Len(FailedCalls(t)) = 1
            /\ ~tasks[t].calls[Len(tasks[t].calls)].ok
        /\ (tasks[t].pc = "queued" /\ \A u \in SameRequestBefore(t) : tasks[u].pc = "returned")
            => ENABLED task_begin(t)

C12_Witness ==
    \E t, u \in 1..Len(tasks) :
        /\ t \in SameRequestBefore(u)
        /\ tasks[t].pc = "exit"
        /\ FailedCalls(t) # <<>>
        /\ tasks[u].pc = "queued"

\* The identities the source of an event names.
Identities(src) == {src.user_id, src.group_id, src.room_id} \ {""}

\* The links a file resource offers: its view link, its content link, the
\* URL built from its id.
LinksOffered(meta) ==
    {<<l>> : l \in {meta.webViewLink, meta.webContentLink} \ {""}}
        \cup (IF meta.id # "" THEN {<<"https://drive.google.com/file/d/", meta.id, "/view">>}
              ELSE {})

Uploaded(t) == \E c \in 1..Len(tasks[t].calls) :
                    tasks[t].calls[c].op = "upload" /\ tasks[t].calls[c].ok

\* C13: a task pushes at most once, to an identity of its own event's source
\* and with a link its own upload returned; with no identity in the source
\* or no link in the upload's result it has pushed nothing when it is about
\* to return, and it has fetched and uploaded at most once.
C13_OnePushToOwnSource ==
    \A t \in 1..Len(tasks) :
        /\ Len(TaskCalls(t, "push")) <= 1
        /\ Len(TaskCalls(t, "fetch")) <= 1
        /\ Len(TaskCalls(t, "upload")) <= 1
        /\ \A c \in 1..Len(tasks[t].calls) :
            tasks[t].calls[c].op = "push" =>
                /\ Uploaded(t)
                /\ tasks[t].calls[c].to \in Identities(tasks[t].ev.source)
                /\ tasks[t].calls[c].text \in LinksOffered(tasks[t].meta)
        /\ (tasks[t].pc = "exit"
                /\ (Identities(tasks[t].ev.source) = {} \/ LinksOffered(tasks[t].meta) = {}))
            => TaskCalls(t, "push") = <<>>
        /\ (tasks[t].pc = "exit" /\ Uploaded(t)
                /\ Identities(tasks[t].ev.source) # {} /\ LinksOffered(tasks[t].meta) # {})
            => Len(TaskCalls(t, "push")) = 1

C13_Witness ==
    \E t \in 1..Len(tasks) :
        /\ tasks[t].pc = "exit"
        /\ tasks[t].ev.source.group_id = "G1"
        /\ tasks[t].ev.source.user_id = ""
        /\ Len(TaskCalls(t, "push")) = 1
        /\ TaskCalls(t, "push")[1].to = "G1"
        /\ tasks[t].meta.webViewLink = ""

\* C14: after an upload the link of the task is the view link when there is
\* one, else the content link when there is one, else
\* https://drive.google.com/file/d/<id>/view when there is an id, else no
\* link; and a push carries this link.
C14_LinkPreference ==
    \A t \in 1..Len(tasks) :
        Uploaded(t) =>
            LET m == tasks[t].meta
                l == tasks[t].link
            IN  /\ m.webViewLink # "" => l = <<m.webViewLink>>
                /\ (m.webViewLink = "" /\ m.webContentLink # "") => l = <<m.webContentLink>>
                /\ (m.webViewLink = "" /\ m.webContentLink = "" /\ m.id # "")
                    => l = <<"https://drive.google.com/file/d/", m.id, "/view">>
                /\ (m.webViewLink = "" /\ m.webContentLink = "" /\ m.id = "") => l = <<>>
                /\ \A c \in 1..Len(tasks[t].calls) :
                    tasks[t].calls[c].op = "push" => tasks[t].calls[c].text = l

C14_Witness ==
    \E t \in 1..Len(tasks) :
        /\ tasks[t].pc = "exit"
        /\ tasks[t].meta = [id |-> "abc", webViewLink |-> "", webContentLink |-> "content"]
        /\ Len(TaskCalls(t, "push")) = 1
        /\ TaskCalls(t, "push")[1].text = <<"content">>

\* The extension of a content type, ".jpg" for image/jpeg.
ExtensionFor(ct) ==
    CASE ct = "application/pdf" -> <<".", "pdf">>
      [] ct = "image/jpeg" -> <<".", "jpg">>
      [] ct = "application/octet-stream" -> <<".", "bin">>
      [] OTHER -> <<>>

Declared(t) == tasks[t].ev.file_name
HasExtension(name) == \E k \in 1..Len(name) : name[k] = "."

\* C15: when a task is about to upload, its file name is the declared name
\* unchanged if that has an extension, the declared name followed by the
\* extension of the content type if it has none, and line_<message id>
\* followed by that extension if no name was declared; the extension of
\* image/jpeg is ".jpg", never ".jpe".
C15_FilenameDerivation ==
    \A t \in 1..Len(tasks) :
        tasks[t].pc = "upload" =>
            LET ext == ExtensionFor(tasks[t].content_type)
                name == tasks[t].filename
            IN  /\ (Declared(t) # <<>> /\ HasExtension(Declared(t))) => name = Declared(t)
                /\ (Declared(t) # <<>> /\ ~HasExtension(Declared(t)))
                    => name = Declared(t) \o ext
                /\ Declared(t) = <<>> => name = <<"line_", ToString(tasks[t].ev.id)>> \o ext
                /\ name[Len(name)] # "jpe"

C15_Witness ==
    \E t \in 1..Len(tasks) :
        /\ tasks[t].pc = "upload"
        /\ Declared(t) = <<"report">>
        /\ tasks[t].content_type = "application/pdf"
        /\ tasks[t].filename = <<"report", ".", "pdf">>

\* C16: each client handle is built at most once, and a handle that has been
\* set is never replaced or reset, whatever the interleaving of handlers and
\* tasks in _ensure_clients.
C16_HandlesBuiltOnce ==
    /\ drive_built <= 1
    /\ drive \in {NoDrive, 1}

\* The handler's own comparison accepts the request in the handler.
PassesHandlerCheck ==
    /\ Signed
    /\ compare_digest(strip(req.header.value),
                      _compute_signature(CHANNEL_SECRET, req.body)) = "equal"

\* C18: with the configuration complete, a request that passes the handler's
\* own signature check is answered 200, never 400: the check made while
\* parsing rejects nothing the handler's check accepted.
C18_ChecksAgree ==
    (hpc = "returned" /\ RequiredConfigPresent /\ PassesHandlerCheck)
        => (resp.status = 200 /\ resp.error = None)

Pipeline == <<"fetch", "upload", "push">>

\* C19: the calls of a task are fetch, upload, push in this order, each at
\* most once and each only after the one before it succeeded; a task that
\* has not passed the readiness check has made none, and none is made while
\* the chat client or the storage client is not there.
C19_PipelineInOrder ==
    \A t \in 1..Len(tasks) :
        LET c == tasks[t].calls
        IN  /\ Len(c) <= Len(Pipeline)
            /\ \A k \in 1..Len(c) : c[k].op = Pipeline[k]
            /\ \A k \in 1..(Len(c) - 1) : c[k].ok
            /\ tasks[t].pc \in {"pending", "queued", "get_drive"} => c = <<>>
            /\ tasks[t].pc = "upload" => Len(c) = 1
            /\ tasks[t].pc = "push" => Len(c) = 2
            /\ (tasks[t].pc \in {"fetch", "upload", "push"} \/ c # <<>>)
                => (line_bot_api # None /\ drive # NoDrive)

C19_Witness ==
    \E t, u \in 1..Len(tasks) :
        /\ tasks[t].pc = "exit"
        /\ Len(tasks[t].calls) = 3
        /\ tasks[t].calls[3].ok
        /\ u < t
        /\ tasks[u].pc = "returned"
        /\ drive_built = 1

====
